---- MODULE Spec2Model ----
(***************************************************************************)
(* Model of the entity-matching helpers of Music Assistant:                *)
(*   music_assistant/helpers/compare.py  (get_compare_string,              *)
(*       compare_strings, compare_artists, compare_albums, compare_album,  *)
(*       compare_track)                                                    *)
(*   music_assistant/utils.py  (parse_title_and_version,                   *)
(*       get_version_substitute, get_compare_string, compare_strings)      *)
(*                                                                         *)
(* A Python str is modelled as a sequence of one-character strings, so     *)
(* that lower(), unidecode(), re.sub(), split(), replace(), strip() and    *)
(* title() are computed character by character.  An optional value is a    *)
(* sequence of length at most one: None is << >> and a present value v is  *)
(* << v >>.                                                                *)
(*                                                                         *)
(* All the functions are pure.  A behaviour is one call: Init draws the    *)
(* function and its arguments, the action of that function applies it and  *)
(* stores what it returns.                                                 *)
(***************************************************************************)
EXTENDS Integers, Sequences, FiniteSets, TLC

VARIABLES
    pc,     \* "called" before the function has run, "returned" after
    call,   \* name of the function that is called
    args,   \* record of the arguments of the call
    ret     \* returned value (None until the function has returned)

vars == <<pc, call, args, ret>>

----------------------------------------------------------------------------
(* Optional values *)

None == << >>

Some(v) == << v >>

\* Python truthiness of an optional string: None and "" are falsy.
Truthy(opt) == opt # None /\ opt[1] # << >>

----------------------------------------------------------------------------
(* Characters *)

UpperLetters ==
    << "A", "B", "C", "D", "E", "F", "G", "H", "I", "J", "K", "L", "M",
       "N", "O", "P", "Q", "R", "S", "T", "U", "V", "W", "X", "Y", "Z" >>

LowerLetters ==
    << "a", "b", "c", "d", "e", "f", "g", "h", "i", "j", "k", "l", "m",
       "n", "o", "p", "q", "r", "s", "t", "u", "v", "w", "x", "y", "z" >>

DigitChars == { "0", "1", "2", "3", "4", "5", "6", "7", "8", "9" }

IsAsciiUpper(c) == \E i \in 1..26 : UpperLetters[i] = c

IsAsciiLower(c) == \E i \in 1..26 : LowerLetters[i] = c

\* the character class [a-zA-Z0-9] of the regular expression
IsAlnumAscii(c) == IsAsciiUpper(c) \/ IsAsciiLower(c) \/ c \in DigitChars

LetterIndex(letters, c) == CHOOSE i \in 1..26 : letters[i] = c

\* str.lower() on one character
LowerChar(c) ==
    IF IsAsciiUpper(c) THEN LowerLetters[LetterIndex(UpperLetters, c)]
    ELSE IF c = "É" THEN "é"
    ELSE c

\* str.upper() on one character, as str.title() uses it: a string, because
\* the sharp s becomes two characters
TitleChar(c) ==
    IF IsAsciiLower(c) THEN << UpperLetters[LetterIndex(LowerLetters, c)] >>
    ELSE IF c = "é" THEN << "É" >>
    ELSE IF c = "ß" THEN << "S", "s" >>
    ELSE << c >>

\* a character that has an upper or a lower case
IsCased(c) == IsAsciiUpper(c) \/ IsAsciiLower(c) \/ c \in { "é", "É", "ß" }

\* unidecode.unidecode() on one character: ASCII is kept, the rest is
\* transliterated by the fixed table
UnidecodeChar(c) ==
    IF c = "é" THEN << "e" >>
    ELSE IF c = "É" THEN << "E" >>
    ELSE IF c = "ß" THEN << "s", "s" >>
    ELSE << c >>

----------------------------------------------------------------------------
(* Python string methods *)

\* str.lower()
Lower(s) == [ i \in 1..Len(s) |-> LowerChar(s[i]) ]

RECURSIVE Unidecode(_)
\* unidecode.unidecode(s)
Unidecode(s) ==
    IF s = << >> THEN << >>
    ELSE UnidecodeChar(Head(s)) \o Unidecode(Tail(s))

\* re.sub(r"[^a-zA-Z0-9]", "", s)
ReSubNonAlnum(s) == SelectSeq(s, IsAlnumAscii)

\* s[from..] starts with sub
MatchAt(s, sub, from) ==
    /\ from + Len(sub) - 1 <= Len(s)
    /\ \A k \in 1..Len(sub) : s[from + k - 1] = sub[k]

\* str.find(sub) counted from 1: the first position of sub in s, 0 if none
Find(s, sub) ==
    IF \E i \in 1..Len(s) : MatchAt(s, sub, i)
    THEN CHOOSE i \in 1..Len(s) :
            MatchAt(s, sub, i) /\ \A j \in 1..(i - 1) : ~MatchAt(s, sub, j)
    ELSE 0

\* sub in s, for a non-empty sub
Contains(s, sub) == Find(s, sub) # 0

\* s[i:] with i counted from 1
From(s, i) == SubSeq(s, i, Len(s))

RECURSIVE Split(_, _)
\* str.split(sep) for a non-empty sep: the list of the pieces between the
\* occurrences of sep, found from left to right without overlap
Split(s, sep) ==
    LET i == Find(s, sep) IN
    IF i = 0 THEN << s >>
    ELSE << SubSeq(s, 1, i - 1) >> \o Split(From(s, i + Len(sep)), sep)

RECURSIVE Replace(_, _, _)
\* str.replace(old, new) for a non-empty old
Replace(s, old, new) ==
    LET i == Find(s, old) IN
    IF i = 0 THEN s
    ELSE SubSeq(s, 1, i - 1) \o new \o Replace(From(s, i + Len(old)), old, new)

\* str.startswith(prefix)
StartsWith(s, prefix) == MatchAt(s, prefix, 1)

\* str.endswith(suffix)
EndsWith(s, suffix) ==
    Len(suffix) <= Len(s) /\ MatchAt(s, suffix, Len(s) - Len(suffix) + 1)

RECURSIVE LStrip(_)
LStrip(s) == IF s # << >> /\ Head(s) = " " THEN LStrip(Tail(s)) ELSE s

RECURSIVE RStrip(_)
RStrip(s) ==
    IF s # << >> /\ s[Len(s)] = " " THEN RStrip(SubSeq(s, 1, Len(s) - 1))
    ELSE s

\* str.strip()
Strip(s) == RStrip(LStrip(s))

RECURSIVE TitleFrom(_, _)
\* str.title() from a position on: a cased character becomes upper case
\* after an uncased one and lower case after a cased one
TitleFrom(s, prevCased) ==
    IF s = << >> THEN << >>
    ELSE LET c == Head(s) IN
         IF IsCased(c)
         THEN (IF prevCased THEN << LowerChar(c) >> ELSE TitleChar(c))
              \o TitleFrom(Tail(s), TRUE)
         ELSE << c >> \o TitleFrom(Tail(s), FALSE)

\* str.title()
Title(s) == TitleFrom(s, FALSE)

----------------------------------------------------------------------------
(* helpers/compare.py *)

\* get_compare_string without the final lower()
get_compare_string_no_lower(input_str) ==
    LET unaccented_string == Unidecode(input_str) IN
    ReSubNonAlnum(unaccented_string)

\* Return clean lowered string for compare actions.
get_compare_string(input_str) ==
    LET unaccented_string == Unidecode(input_str) IN
    Lower(ReSubNonAlnum(unaccented_string))

\* compare_strings that falls back to the clean strings in strict mode too
compare_strings_ignores_strict(str1, str2, strict) ==
    LET match == Lower(str1) = Lower(str2) IN
    IF ~match
    THEN get_compare_string(str1) = get_compare_string(str2)
    ELSE match

\* Compare strings and return True if we have an (almost) perfect match.
compare_strings(str1, str2, strict) ==
    LET match == Lower(str1) = Lower(str2) IN
    IF ~match /\ ~strict
    THEN get_compare_string(str1) = get_compare_string(str2)
    ELSE match

----------------------------------------------------------------------------
(* utils.py: the same two helpers are defined a second time there *)

utils_get_compare_string(input_str) ==
    LET unaccented_string == Unidecode(input_str) IN
    Lower(ReSubNonAlnum(unaccented_string))

utils_compare_strings(str1, str2, strict) ==
    LET match == Lower(str1) = Lower(str2) IN
    IF ~match /\ ~strict
    THEN utils_get_compare_string(str1) = utils_get_compare_string(str2)
    ELSE match

----------------------------------------------------------------------------
(* utils.py: title and version parsing *)

\* " (", " [", " - ", " (", " [", "-"
Splitters ==
    << << " ", "(" >>,
       << " ", "[" >>,
       << " ", "-", " " >>,
       << " ", "(" >>,
       << " ", "[" >>,
       << "-" >> >>

\* ")", "]"
EndSplitters ==
    << << ")" >>,
       << "]" >> >>

\* "feat.", "featuring", "ft.", "with ", " & ", "explicit"
IgnoreStrs ==
    << << "f", "e", "a", "t", "." >>,
       << "f", "e", "a", "t", "u", "r", "i", "n", "g" >>,
       << "f", "t", "." >>,
       << "w", "i", "t", "h", " " >>,
       << " ", "&", " " >>,
       << "e", "x", "p", "l", "i", "c", "i", "t" >> >>

\* "version", "live", "edit", "remix", "mix", "acoustic", " instrumental",
\* "karaoke", "remaster", "versie", "radio", "unplugged", "disco"
VersionStrs ==
    << << "v", "e", "r", "s", "i", "o", "n" >>,
       << "l", "i", "v", "e" >>,
       << "e", "d", "i", "t" >>,
       << "r", "e", "m", "i", "x" >>,
       << "m", "i", "x" >>,
       << "a", "c", "o", "u", "s", "t", "i", "c" >>,
       << " ", "i", "n", "s", "t", "r", "u", "m", "e", "n", "t", "a", "l" >>,
       << "k", "a", "r", "a", "o", "k", "e" >>,
       << "r", "e", "m", "a", "s", "t", "e", "r" >>,
       << "v", "e", "r", "s", "i", "e" >>,
       << "r", "a", "d", "i", "o" >>,
       << "u", "n", "p", "l", "u", "g", "g", "e", "d" >>,
       << "d", "i", "s", "c", "o" >> >>

\* substitute edit and edition with version
SubstituteEdit(version_str) ==
    IF Contains(version_str, << "e", "d", "i", "t", "i", "o", "n" >>)
       \/ Contains(version_str, << "e", "d", "i", "t" >>)
    THEN Replace(Replace(version_str,
                         << " ", "e", "d", "i", "t", "i", "o", "n" >>,
                         << " ", "v", "e", "r", "s", "i", "o", "n" >>),
                 << " ", "e", "d", "i", "t", " " >>, << " ", "v", "e", "r", "s", "i", "o", "n" >>)
    ELSE version_str

\* if version_str.startswith("the "): version_str.split("the ")[1]
DropThe(version_str) ==
    IF StartsWith(version_str, << "t", "h", "e", " " >>)
    THEN Split(version_str, << "t", "h", "e", " " >>)[2]
    ELSE version_str

\* the if/elif chain over "radio mix", "video mix", "spanglish",
\* "spanish" and "remaster"
SubstituteKnown(version_str) ==
    IF Contains(version_str, << "r", "a", "d", "i", "o", " ", "m", "i", "x" >>)
    THEN << "r", "a", "d", "i", "o", " ", "v", "e", "r", "s", "i", "o", "n" >>
    ELSE IF Contains(version_str, << "v", "i", "d", "e", "o", " ", "m", "i", "x" >>)
    THEN << "v", "i", "d", "e", "o", " ", "v", "e", "r", "s", "i", "o", "n" >>
    ELSE IF Contains(version_str, << "s", "p", "a", "n", "g", "l", "i", "s", "h" >>)
            \/ Contains(version_str, << "s", "p", "a", "n", "i", "s", "h" >>)
    THEN << "s", "p", "a", "n", "i", "s", "h", " ", "v", "e", "r", "s", "i", "o", "n" >>
    ELSE IF EndsWith(version_str, << "r", "e", "m", "a", "s", "t", "e", "r" >>)
    THEN << "r", "e", "m", "a", "s", "t", "e", "r" >>
    ELSE version_str

\* Transform provider version str to universal version type.
get_version_substitute(version_str) ==
    Strip(SubstituteKnown(DropThe(SubstituteEdit(Lower(version_str)))))

RECURSIVE EndSplitterLoop(_, _)
\* for end_splitter in [")", "]"]: cut title_part at the end splitter
EndSplitterLoop(title_part, k) ==
    IF k > Len(EndSplitters) THEN title_part
    ELSE EndSplitterLoop(
            IF Contains(title_part, EndSplitters[k])
            THEN Split(title_part, EndSplitters[k])[1]
            ELSE title_part,
            k + 1)

RECURSIVE IgnoreLoop(_, _, _, _)
\* for ignore_str in [...]: cut the title at splitter + title_part
IgnoreLoop(title, splitter, title_part, k) ==
    IF k > Len(IgnoreStrs) THEN title
    ELSE IgnoreLoop(
            IF Contains(title_part, IgnoreStrs[k])
            THEN Split(title, splitter \o title_part)[1]
            ELSE title,
            splitter, title_part, k + 1)

RECURSIVE VersionLoop(_, _, _, _)
\* for version_str in [...]: take title_part as the version and cut the
\* title at splitter + version
VersionLoop(st, splitter, title_part, k) ==
    IF k > Len(VersionStrs) THEN st
    ELSE VersionLoop(
            IF Contains(title_part, VersionStrs[k])
            THEN [ version |-> title_part,
                   title |-> Split(st.title, splitter \o title_part)[1] ]
            ELSE st,
            splitter, title_part, k + 1)

RECURSIVE TitlePartLoop(_, _, _, _)
\* for title_part in title_parts
TitlePartLoop(st, splitter, title_parts, j) ==
    IF j > Len(title_parts) THEN st
    ELSE LET title_part == EndSplitterLoop(title_parts[j], 1)
             ignored == [ st EXCEPT
                            !.title = IgnoreLoop(st.title, splitter,
                                                 title_part, 1) ]
         IN  TitlePartLoop(VersionLoop(ignored, splitter, title_part, 1),
                           splitter, title_parts, j + 1)

RECURSIVE SplitterLoop(_, _)
\* for splitter in [" (", " [", " - ", " (", " [", "-"]
SplitterLoop(st, i) ==
    IF i > Len(Splitters) THEN st
    ELSE SplitterLoop(
            IF Contains(st.title, Splitters[i])
            THEN TitlePartLoop(st, Splitters[i],
                               Split(st.title, Splitters[i]), 1)
            ELSE st,
            i + 1)

\* Try to parse clean track title and version from the title.
\* Returns the pair << title, version >>.
parse_title_and_version(track_title, track_version) ==
    LET st == SplitterLoop([ title |-> Lower(track_title),
                             version |-> << >> ], 1)
        title == Title(Strip(st.title))
        version == IF st.version = << >> /\ Truthy(track_version)
                   THEN track_version[1]
                   ELSE st.version
    IN  << title, Title(get_version_substitute(version)) >>

----------------------------------------------------------------------------
(* helpers/compare.py: artists, albums and tracks                          *)
(*                                                                         *)
(* Artist: [name]                                                          *)
(* Album:  [provider, item_id, upc, name, version, artist, year]           *)
(* Track:  [provider, item_id, isrc, name, version, artists, albums,       *)
(*          album, duration]                                               *)
(* upc, isrc and year are optional; albums is a list that is empty when    *)
(* the track has none (None and [] are both falsy in Python).              *)

\* the tolerance of the duration comparison, in seconds
DurationTolerance == 5

\* abs()
Abs(n) == IF n < 0 THEN -n ELSE n

\* compare_artists that wants every pair to match instead of one pair
compare_artists_every_pair(left_artists, right_artists) ==
    \A i \in 1..Len(left_artists) :
        \A j \in 1..Len(right_artists) :
            compare_strings(left_artists[i].name, right_artists[j].name,
                            FALSE)

\* Compare two lists of artist and return True if a match was found.
compare_artists(left_artists, right_artists) ==
    \E i \in 1..Len(left_artists) :
        \E j \in 1..Len(right_artists) :
            compare_strings(left_artists[i].name, right_artists[j].name,
                            FALSE)

\* the UPC test without the check that the left UPC is set
UpcMatch_unset_equal(left_album, right_album) ==
    left_album.upc = right_album.upc

\* left_album.upc and left_album.upc == right_album.upc
UpcMatch(left_album, right_album) ==
    Truthy(left_album.upc) /\ left_album.upc = right_album.upc

\* compare_album with the UPC test moved behind the name test
compare_album_upc_after_name(left_album, right_album) ==
    IF /\ left_album.provider = right_album.provider
       /\ left_album.item_id = right_album.item_id
    THEN TRUE
    ELSE IF ~compare_strings(left_album.name, right_album.name, FALSE)
    THEN FALSE
    ELSE IF UpcMatch(left_album, right_album)
    THEN TRUE
    ELSE IF ~compare_strings(left_album.version, right_album.version, FALSE)
    THEN FALSE
    ELSE IF ~compare_strings(left_album.artist.name,
                             right_album.artist.name, FALSE)
    THEN FALSE
    ELSE IF left_album.year # right_album.year
    THEN FALSE
    ELSE TRUE

\* Compare two album items and return True if they match.
compare_album(left_album, right_album) ==
    IF /\ left_album.provider = right_album.provider
       /\ left_album.item_id = right_album.item_id
    THEN TRUE
    ELSE IF UpcMatch(left_album, right_album)
    THEN TRUE   \* UPC is always 100% accurate match
    ELSE IF ~compare_strings(left_album.name, right_album.name, FALSE)
    THEN FALSE
    ELSE IF ~compare_strings(left_album.version, right_album.version, FALSE)
    THEN FALSE
    ELSE IF ~compare_strings(left_album.artist.name,
                             right_album.artist.name, FALSE)
    THEN FALSE
    ELSE IF left_album.year # right_album.year
    THEN FALSE
    ELSE TRUE   \* 100% match, all criteria passed

\* Compare two lists of albums and return True if a match was found.
compare_albums(left_albums, right_albums) ==
    \E i \in 1..Len(left_albums) :
        \E j \in 1..Len(right_albums) :
            compare_album(left_albums[i], right_albums[j])

\* left_track.albums or [left_track.album]
ResolvedAlbums(track) ==
    IF track.albums # << >> THEN track.albums ELSE << track.album >>

\* left_track.isrc and left_track.isrc == right_track.isrc
IsrcMatch(left_track, right_track) ==
    Truthy(left_track.isrc) /\ left_track.isrc = right_track.isrc

\* the duration test without abs()
DurationMatch_no_abs(left_track, right_track) ==
    left_track.duration - right_track.duration <= DurationTolerance

\* the duration test with < instead of <=
DurationMatch_less_than(left_track, right_track) ==
    Abs(left_track.duration - right_track.duration) < DurationTolerance

\* abs(left_track.duration - right_track.duration) <= 5
DurationMatch(left_track, right_track) ==
    Abs(left_track.duration - right_track.duration) <= DurationTolerance

\* Compare two track items and return True if they match.
compare_track(left_track, right_track) ==
    IF /\ left_track.provider = right_track.provider
       /\ left_track.item_id = right_track.item_id
    THEN TRUE
    ELSE IF IsrcMatch(left_track, right_track)
    THEN TRUE   \* ISRC is always 100% accurate match
    \* track name and version must match
    ELSE IF ~compare_strings(left_track.name, right_track.name, FALSE)
    THEN FALSE
    ELSE IF ~compare_strings(left_track.version, right_track.version, FALSE)
    THEN FALSE
    \* track artist(s) must match
    ELSE IF ~compare_artists(left_track.artists, right_track.artists)
    THEN FALSE
    \* album match OR near exact duration match
    ELSE LET left_albums == ResolvedAlbums(left_track)
             right_albums == ResolvedAlbums(right_track)
         IN  IF ~(\/ compare_albums(left_albums, right_albums)
                  \/ DurationMatch(left_track, right_track))
             THEN FALSE
             ELSE TRUE   \* 100% match, all criteria passed

----------------------------------------------------------------------------
(* Arguments of the calls *)

\* longest string that is enumerated character by character
MaxStrLen == 2

\* latest release year of an album
MaxYear == 2000

\* longest track duration, in seconds
MaxDuration == 6

\* "A", "a", "É"... : an upper and a lower case letter, an accented letter,
\* its unaccented form, and a punctuation character
Alphabet == { "A", "a", "é", "e", "-" }

\* every string over Alphabet of at most n characters
StrsUpTo(n) == UNION { [ 1..k -> Alphabet ] : k \in 0..n }

\* "Café", "Cafe", "A-B", "AB", "ABC", "abc", "Straße", "STRASSE", "Top 10"
ExampleStrs ==
    { << "C", "a", "f", "é" >>,
      << "C", "a", "f", "e" >>,
      << "A", "-", "B" >>,
      << "A", "B" >>,
      << "A", "B", "C" >>,
      << "a", "b", "c" >>,
      << "S", "t", "r", "a", "ß", "e" >>,
      << "S", "T", "R", "A", "S", "S", "E" >>,
      << "T", "o", "p", " ", "1", "0" >> }

Strs == StrsUpTo(MaxStrLen) \cup ExampleStrs

Providers == { "spotify", "qobuz" }

AlbumItemIds == { "1", "2" }

TrackItemIds == { "7" }

\* None, "", "1"
Upcs == { None, Some(<< >>), Some(<< "1" >>) }

\* None, "", "2"
Isrcs == { None, Some(<< >>), Some(<< "2" >>) }

\* "Café", "Cafe", "Tea"
AlbumNames ==
    { << "C", "a", "f", "é" >>,
      << "C", "a", "f", "e" >>,
      << "T", "e", "a" >> }

\* "", "Live"
Versions ==
    { << >>,
      << "L", "i", "v", "e" >> }

\* "A-B", "AB", "Cd"
ArtistNames ==
    { << "A", "-", "B" >>,
      << "A", "B" >>,
      << "C", "d" >> }

Artists == [ name : ArtistNames ]

\* the artist named name
Artist(name) == [ name |-> name ]

Years == { None } \cup { Some(y) : y \in 1999..MaxYear }

\* "AB", "Cd"
AlbumArtists ==
    { Artist(<< "A", "B" >>), Artist(<< "C", "d" >>) }

Albums ==
    [ provider : Providers, item_id : AlbumItemIds, upc : Upcs, name : AlbumNames,
      version : Versions, artist : AlbumArtists, year : Years ]

\* every list of artists of at most n artists
ArtistListsUpTo(n) == UNION { [ 1..k -> Artists ] : k \in 0..n }

\* longest list of artists that compare_artists is called with
MaxArtists == 2

\* [], ["AB"], ["A-B", "Cd"]
TrackArtistLists ==
    { << >>,
      << Artist(<< "A", "B" >>) >>,
      << Artist(<< "A", "-", "B" >>), Artist(<< "C", "d" >>) >> }

\* "Café", "Tea"
TrackNames ==
    { << "C", "a", "f", "é" >>,
      << "T", "e", "a" >> }

\* two albums that compare_album does not match
FirstAlbum ==
    [ provider |-> "spotify", item_id |-> "1", upc |-> None,
      name |-> << "C", "a", "f", "é" >>, version |-> << >>,
      artist |-> Artist(<< "A", "B" >>), year |-> Some(MaxYear) ]

SecondAlbum ==
    [ provider |-> "qobuz", item_id |-> "1", upc |-> None,
      name |-> << "T", "e", "a" >>, version |-> << >>,
      artist |-> Artist(<< "A", "B" >>), year |-> Some(MaxYear) ]

\* the albums of a track: no list and the single album, or a list that
\* differs from the single album
TrackAlbums ==
    { [ albums |-> << >>, album |-> FirstAlbum ],
      [ albums |-> << SecondAlbum >>, album |-> FirstAlbum ] }

Durations == { 0 } \cup DurationTolerance..MaxDuration

Tracks ==
    { [ provider |-> p, item_id |-> i, isrc |-> c, name |-> n,
        version |-> v, artists |-> a, albums |-> al.albums,
        album |-> al.album, duration |-> d ] :
        p \in Providers, i \in TrackItemIds, c \in Isrcs, n \in TrackNames,
        v \in Versions, a \in TrackArtistLists, al \in TrackAlbums,
        d \in Durations }

\* "Hello World", "Song Title", "Song Title feat. Someone"
TitleBases ==
    { << "H", "e", "l", "l", "o", " ", "W", "o", "r", "l", "d" >>,
      << "S", "o", "n", "g", " ", "T", "i", "t", "l", "e" >>,
      << "S", "o", "n", "g", " ", "T", "i", "t", "l", "e", " ", "f", "e", "a", "t", ".", " ", "S", "o", "m", "e", "o", "n", "e" >> }

\* "", " (Radio Edit)", " (Remix)", " (feat. Someone) (Remix)", " [Live]",
\* " - Radio Mix", "-Remaster"
TitleTags ==
    { << >>,
      << " ", "(", "R", "a", "d", "i", "o", " ", "E", "d", "i", "t", ")" >>,
      << " ", "(", "R", "e", "m", "i", "x", ")" >>,
      << " ", "(", "f", "e", "a", "t", ".", " ", "S", "o", "m", "e", "o", "n", "e", ")", " ", "(", "R", "e", "m", "i", "x", ")" >>,
      << " ", "[", "L", "i", "v", "e", "]" >>,
      << " ", "-", " ", "R", "a", "d", "i", "o", " ", "M", "i", "x" >>,
      << "-", "R", "e", "m", "a", "s", "t", "e", "r" >> }

\* a raw track title: a base followed by a tag
RawTitles == { b \o t : b \in TitleBases, t \in TitleTags }

\* None, "", "the best of the best", "Deluxe Edition"
TrackVersions ==
    { None,
      Some(<< >>),
      Some(<< "t", "h", "e", " ", "b", "e", "s", "t", " ", "o", "f", " ", "t", "h", "e", " ", "b", "e", "s", "t" >>),
      Some(<< "D", "e", "l", "u", "x", "e", " ", "E", "d", "i", "t", "i", "o", "n" >>) }

\* "the best of the best", "The Radio Edit", "Deluxe Edition",
\* "the edit of the year", "Radio Mix", "Video Mix", "Spanglish",
\* "2011 Remaster", "Live"
RawVersions ==
    { << "t", "h", "e", " ", "b", "e", "s", "t", " ", "o", "f", " ", "t", "h", "e", " ", "b", "e", "s", "t" >>,
      << "T", "h", "e", " ", "R", "a", "d", "i", "o", " ", "E", "d", "i", "t" >>,
      << "D", "e", "l", "u", "x", "e", " ", "E", "d", "i", "t", "i", "o", "n" >>,
      << "t", "h", "e", " ", "e", "d", "i", "t", " ", "o", "f", " ", "t", "h", "e", " ", "y", "e", "a", "r" >>,
      << "R", "a", "d", "i", "o", " ", "M", "i", "x" >>,
      << "V", "i", "d", "e", "o", " ", "M", "i", "x" >>,
      << "S", "p", "a", "n", "g", "l", "i", "s", "h" >>,
      << "2", "0", "1", "1", " ", "R", "e", "m", "a", "s", "t", "e", "r" >>,
      << "L", "i", "v", "e" >> }

----------------------------------------------------------------------------
(* The calls *)

CalledWith(f, a) ==
    /\ pc = "called"
    /\ call = f
    /\ args = a
    /\ ret = None

InitStrings ==
    \/ \E s \in Strs :
          \E f \in { "get_compare_string", "utils.get_compare_string" } :
              CalledWith(f, [ input_str |-> s ])
    \/ \E s1 \in Strs, s2 \in Strs, b \in BOOLEAN :
          \E f \in { "compare_strings", "utils.compare_strings" } :
              CalledWith(f, [ str1 |-> s1, str2 |-> s2, strict |-> b ])

InitAlbums ==
    \E l \in Albums, r \in Albums :
        CalledWith("compare_album", [ left_album |-> l, right_album |-> r ])

InitArtists ==
    \E l \in ArtistListsUpTo(MaxArtists), r \in ArtistListsUpTo(MaxArtists) :
        CalledWith("compare_artists",
                   [ left_artists |-> l, right_artists |-> r ])

InitTracks ==
    \E l \in Tracks, r \in Tracks :
        CalledWith("compare_track", [ left_track |-> l, right_track |-> r ])

InitTitles ==
    \/ \E t \in RawTitles, v \in TrackVersions :
          CalledWith("parse_title_and_version",
                     [ track_title |-> t, track_version |-> v ])
    \/ \E v \in RawVersions :
          CalledWith("get_version_substitute", [ version_str |-> v ])

Init ==
    InitStrings \/ InitArtists \/ InitAlbums \/ InitTracks \/ InitTitles

\* Each action is one call running to its return statement.

GetCompareString ==
    /\ pc = "called"
    /\ call = "get_compare_string"
    /\ ret' = get_compare_string(args.input_str)
    /\ pc' = "returned"
    /\ UNCHANGED << call, args >>

CompareStrings ==
    /\ pc = "called"
    /\ call = "compare_strings"
    /\ ret' = compare_strings(args.str1, args.str2, args.strict)
    /\ pc' = "returned"
    /\ UNCHANGED << call, args >>

UtilsGetCompareString ==
    /\ pc = "called"
    /\ call = "utils.get_compare_string"
    /\ ret' = utils_get_compare_string(args.input_str)
    /\ pc' = "returned"
    /\ UNCHANGED << call, args >>

UtilsCompareStrings ==
    /\ pc = "called"
    /\ call = "utils.compare_strings"
    /\ ret' = utils_compare_strings(args.str1, args.str2, args.strict)
    /\ pc' = "returned"
    /\ UNCHANGED << call, args >>

CompareArtists ==
    /\ pc = "called"
    /\ call = "compare_artists"
    /\ ret' = compare_artists(args.left_artists, args.right_artists)
    /\ pc' = "returned"
    /\ UNCHANGED << call, args >>

CompareAlbum ==
    /\ pc = "called"
    /\ call = "compare_album"
    /\ ret' = compare_album(args.left_album, args.right_album)
    /\ pc' = "returned"
    /\ UNCHANGED << call, args >>

CompareTrack ==
    /\ pc = "called"
    /\ call = "compare_track"
    /\ ret' = compare_track(args.left_track, args.right_track)
    /\ pc' = "returned"
    /\ UNCHANGED << call, args >>

ParseTitleAndVersion ==
    /\ pc = "called"
    /\ call = "parse_title_and_version"
    /\ ret' = parse_title_and_version(args.track_title,
                                   args.track_version)
    /\ pc' = "returned"
    /\ UNCHANGED << call, args >>

GetVersionSubstitute ==
    /\ pc = "called"
    /\ call = "get_version_substitute"
    /\ ret' = get_version_substitute(args.version_str)
    /\ pc' = "returned"
    /\ UNCHANGED << call, args >>

Next ==
    \/ GetCompareString
    \/ CompareStrings
    \/ UtilsGetCompareString
    \/ UtilsCompareStrings
    \/ CompareArtists
    \/ CompareAlbum
    \/ CompareTrack
    \/ ParseTitleAndVersion
    \/ GetVersionSubstitute

Spec == Init /\ [][Next]_vars

\* the call of f has returned
Returned(f) == pc = "returned" /\ call = f

----------------------------------------------------------------------------
(* Properties of utils.py *)

\* C1: parse_title_and_version applied to the raw title
\* "Hello World (Radio Edit)" with no fallback version returns the title
\* "Hello World" and the version "Radio Version".
C1_RadioEditExample ==
    ( /\ Returned("parse_title_and_version")
      /\ args.track_title =
            << "H", "e", "l", "l", "o", " ", "W", "o", "r", "l", "d", " ", "(", "R", "a", "d", "i", "o", " ", "E", "d", "i", "t", ")" >>
      /\ args.track_version = None )
    => ret = << << "H", "e", "l", "l", "o", " ", "W", "o", "r", "l", "d" >>,
                << "R", "a", "d", "i", "o", " ", "V", "e", "r", "s", "i", "o", "n" >> >>

\* C2: parse_title_and_version applied to
\* "Song Title feat. Someone (Remix)" with no fallback version returns the
\* title "Song Title" and the version "Remix", and no returned title
\* contains a word of the ignore vocabulary.
C2_IgnoredPartsDropped ==
    /\ ( /\ Returned("parse_title_and_version")
         /\ args.track_title =
               << "S", "o", "n", "g", " ", "T", "i", "t", "l", "e", " ", "f", "e", "a", "t", ".", " ", "S", "o", "m", "e", "o", "n", "e", " ", "(", "R", "e", "m", "i", "x", ")" >>
         /\ args.track_version = None )
       => ret = << << "S", "o", "n", "g", " ", "T", "i", "t", "l", "e" >>,
                   << "R", "e", "m", "i", "x" >> >>
    /\ Returned("parse_title_and_version")
       => \A k \in 1..Len(IgnoreStrs) :
             ~Contains(Lower(ret[1]), IgnoreStrs[k])

\* C9: when the lowercased and edit-substituted version string starts with
\* "the ", get_version_substitute drops exactly these four characters and
\* carries on with the whole remainder of the string.
C9_ThePrefixDropped ==
    ( /\ Returned("get_version_substitute")
      /\ StartsWith(SubstituteEdit(Lower(args.version_str)),
                    << "t", "h", "e", " " >>) )
    => ret = Strip(SubstituteKnown(
                From(SubstituteEdit(Lower(args.version_str)), 5)))

----------------------------------------------------------------------------
(* Properties of helpers/compare.py *)

\* provider and item_id of two items are the same
SameItem(left, right) ==
    left.provider = right.provider /\ left.item_id = right.item_id

\* two optional identifiers are both present, non-empty and equal
SharedId(left_id, right_id) ==
    /\ left_id # None
    /\ right_id # None
    /\ left_id[1] # << >>
    /\ right_id[1] # << >>
    /\ left_id[1] = right_id[1]

\* C3: matching is symmetric: compare_strings, compare_album and
\* compare_track return the same value when their two items are swapped.
C3_Symmetric ==
    /\ Returned("compare_strings")
       => ret = compare_strings(args.str2, args.str1, args.strict)
    /\ Returned("utils.compare_strings")
       => ret = utils_compare_strings(args.str2, args.str1, args.strict)
    /\ Returned("compare_album")
       => ret = compare_album(args.right_album, args.left_album)
    /\ Returned("compare_track")
       => ret = compare_track(args.right_track, args.left_track)

\* two tracks of different providers and durations, the first without and
\* the second with a list of albums, were compared and matched
C3_Witness ==
    /\ Returned("compare_track")
    /\ args.left_track.provider # args.right_track.provider
    /\ args.left_track.duration > args.right_track.duration
    /\ args.left_track.albums = << >>
    /\ args.right_track.albums # << >>
    /\ args.left_track.isrc = None
    /\ ret = TRUE

\* C4: two albums whose upc are both present, non-empty and equal match,
\* and two tracks whose isrc are both present, non-empty and equal match,
\* whatever their other fields.
C4_IdentifierOverrides ==
    /\ ( /\ Returned("compare_album")
         /\ SharedId(args.left_album.upc, args.right_album.upc) )
       => ret = TRUE
    /\ ( /\ Returned("compare_track")
         /\ SharedId(args.left_track.isrc, args.right_track.isrc) )
       => ret = TRUE

\* two albums that share a upc and differ in provider, name, version,
\* artist and year were compared and matched
C4_Witness ==
    /\ Returned("compare_album")
    /\ SharedId(args.left_album.upc, args.right_album.upc)
    /\ args.left_album.provider # args.right_album.provider
    /\ ~compare_strings(args.left_album.name, args.right_album.name, FALSE)
    /\ args.left_album.version # args.right_album.version
    /\ args.left_album.artist # args.right_album.artist
    /\ args.left_album.year # args.right_album.year
    /\ ret = TRUE

\* the case of C5: two tracks that are not the same item, share no isrc,
\* match in name, version and artists, and have no matching pair of albums
OnlyDurationDecides(left_track, right_track) ==
    /\ ~SameItem(left_track, right_track)
    /\ ~SharedId(left_track.isrc, right_track.isrc)
    /\ compare_strings(left_track.name, right_track.name, FALSE)
    /\ compare_strings(left_track.version, right_track.version, FALSE)
    /\ compare_artists(left_track.artists, right_track.artists)
    /\ ~compare_albums(ResolvedAlbums(left_track),
                       ResolvedAlbums(right_track))

\* C5: when only the duration decides, compare_track returns true if the
\* durations differ by at most 5 and false if they differ by 6 or more.
C5_DurationBoundary ==
    ( /\ Returned("compare_track")
      /\ OnlyDurationDecides(args.left_track, args.right_track) )
    => LET diff == Abs(args.left_track.duration
                       - args.right_track.duration) IN
       /\ diff <= 5 => ret = TRUE
       /\ diff >= 6 => ret = FALSE

\* two tracks for which only the duration decides and whose durations
\* differ by exactly 5 were compared and matched
C5_Witness ==
    /\ Returned("compare_track")
    /\ OnlyDurationDecides(args.left_track, args.right_track)
    /\ Abs(args.left_track.duration - args.right_track.duration) = 5
    /\ ret = TRUE

\* "Café"
Cafe_accent == << "C", "a", "f", "é" >>

\* "Cafe"
Cafe_plain == << "C", "a", "f", "e" >>

\* "A-B"
AB_hyphen == << "A", "-", "B" >>

\* "AB"
AB_plain == << "A", "B" >>

\* C6: in strict mode compare_strings is true exactly when the lowercased
\* strings are equal; "Café"/"Cafe" and "A-B"/"AB" match in non-strict mode
\* and do not match in strict mode.
C6_StrictNoFallback ==
    ( Returned("compare_strings") \/ Returned("utils.compare_strings") )
    => /\ args.strict => ( ret = (Lower(args.str1) = Lower(args.str2)) )
       /\ ( \/ ( args.str1 = Cafe_accent /\ args.str2 = Cafe_plain )
            \/ ( args.str1 = AB_hyphen /\ args.str2 = AB_plain ) )
          => ret = ~args.strict

\* "Café" and "Cafe" were compared in strict mode and did not match
C6_Witness ==
    /\ Returned("compare_strings")
    /\ args.strict
    /\ args.str1 = Cafe_accent
    /\ args.str2 = Cafe_plain
    /\ ret = FALSE

\* C7: get_compare_string is idempotent and returns only lowercase ASCII
\* letters and digits.
C7_CanonicalIdempotent ==
    /\ Returned("get_compare_string")
       => /\ get_compare_string(ret) = ret
          /\ \A i \in 1..Len(ret) :
                IsAsciiLower(ret[i]) \/ ret[i] \in DigitChars
    /\ Returned("utils.get_compare_string")
       => /\ utils_get_compare_string(ret) = ret
          /\ \A i \in 1..Len(ret) :
                IsAsciiLower(ret[i]) \/ ret[i] \in DigitChars

\* "Straße" was cleaned to "strasse"
C7_Witness ==
    /\ Returned("get_compare_string")
    /\ args.input_str = << "S", "t", "r", "a", "ß", "e" >>
    /\ ret = << "s", "t", "r", "a", "s", "s", "e" >>

\* two optional years are equal: both missing, or both defined and equal
SameYear(left_year, right_year) ==
    \/ left_year = None /\ right_year = None
    \/ left_year # None /\ right_year # None /\ left_year[1] = right_year[1]

\* C8: compare_album returns true iff the two albums are the same item, or
\* share a upc, or match in name, version and artist name and have the same
\* year, a missing year being equal only to a missing year.
C8_AlbumRuleChain ==
    Returned("compare_album")
    => LET l == args.left_album
           r == args.right_album
       IN  ret = ( \/ SameItem(l, r)
                   \/ SharedId(l.upc, r.upc)
                   \/ /\ compare_strings(l.name, r.name, FALSE)
                      /\ compare_strings(l.version, r.version, FALSE)
                      /\ compare_strings(l.artist.name, r.artist.name,
                                         FALSE)
                      /\ SameYear(l.year, r.year) )

\* two albums without upc that differ only in provider and of which one
\* lacks the year were compared and did not match
C8_Witness ==
    /\ Returned("compare_album")
    /\ args.left_album.upc = None
    /\ args.right_album.upc = None
    /\ args.left_album.provider # args.right_album.provider
    /\ args.left_album.name = args.right_album.name
    /\ args.left_album.version = args.right_album.version
    /\ args.left_album.artist = args.right_album.artist
    /\ args.left_album.year = None
    /\ args.right_album.year # None
    /\ ret = FALSE

\* C10: compare_artists returns false when one of the lists is empty, and
\* compare_track returns false for two tracks that are not the same item
\* and share no isrc when one of their artist lists is empty.
C10_EmptyArtistsNeverMatch ==
    /\ ( /\ Returned("compare_artists")
         /\ ( args.left_artists = << >> \/ args.right_artists = << >> ) )
       => ret = FALSE
    /\ ( /\ Returned("compare_track")
         /\ ~SameItem(args.left_track, args.right_track)
         /\ ~SharedId(args.left_track.isrc, args.right_track.isrc)
         /\ ( \/ args.left_track.artists = << >>
              \/ args.right_track.artists = << >> ) )
       => ret = FALSE

\* two tracks without artists that differ only in provider were compared
\* and did not match
C10_Witness ==
    /\ Returned("compare_track")
    /\ args.left_track.provider # args.right_track.provider
    /\ args.left_track.artists = << >>
    /\ args.right_track =
          [ args.left_track EXCEPT !.provider = args.right_track.provider ]
    /\ ret = FALSE

====
